---- MODULE Spec2Model ----
(***************************************************************************)
(* Order routing of the NOVA backend: FulfillmentService (ranking,        *)
(* seller assignment, admin fallback) and the POS seller endpoints        *)
(* (accept, reject, walk-in order creation), over the ORM tables Order,   *)
(* OrderItem, POSSellerProfile, POSInventory, Product, ProductVariation.  *)
(*                                                                         *)
(* Conventions.  Python None is Null, float('inf') is Inf.  Coordinates   *)
(* are whole degrees; calculate_distance is the squared planar distance   *)
(* in degrees, which stands for the great-circle distance in comparisons  *)
(* only (TLC has no reals).  Time is counted in hours.                     *)
(***************************************************************************)
EXTENDS Integers, Sequences, FiniteSets, TLC

VARIABLES
    sellers,     \* pos_seller_profiles: id -> row
    inventory,   \* pos_inventory: <<seller_id, product_id, variation_id>> -> row
    products,    \* products: id -> [manage_stock, stock_quantity, stock_status]
    variations,  \* product_variations: id -> [manage_stock, stock_quantity, stock_status]
    orders,      \* orders: id -> row (items = its order_items, in order)
    now,         \* datetime.utcnow(), in hours
    ret,         \* what the last finished request returned
    req,         \* assign_order calls in flight (interleaved specification only)
    alerts       \* out-of-stock notification events sent so far

vars == <<sellers, inventory, products, variations, orders, now, ret, req, alerts>>

----------------------------------------------------------------------------
(* Values *)

Null == -1
Inf == 1000000
NoStatus == "None"

CHINA_LAT == 23
CHINA_LON == 113
EXPIRY_HOURS == 24
ASSIGN_LIMIT == 20

(* Bounds of the model *)
MaxNow == 1
MaxRankSellers == 24
MaxReserved == 2
MaxDegrees == 2

Min(a, b) == IF a < b THEN a ELSE b
Max(a, b) == IF a > b THEN a ELSE b

Line(p, v, q) == [product_id |-> p, variation_id |-> v, quantity |-> q]

(* Python truthiness of a nullable number: None and 0 are false *)
Truthy(x) == x # Null /\ x # 0

InvKey(s, it) == <<s, it.product_id, it.variation_id>>

DB == [orders |-> orders, inventory |-> inventory,
       products |-> products, variations |-> variations, alerts |-> alerts]

Ret(op, o, ok, msg) == [op |-> op, order |-> o, success |-> ok, msg |-> msg]

----------------------------------------------------------------------------
(* FulfillmentService.calculate_distance *)

(* line 31 with the latitude term not squared *)
calculate_distance_signed(lat1, lon1, lat2, lon2) ==
    IF lat1 = Null \/ lon1 = Null \/ lat2 = Null \/ lon2 = Null
    THEN Inf
    ELSE (lat2 - lat1) + (lon2 - lon1) * (lon2 - lon1)

calculate_distance(lat1, lon1, lat2, lon2) ==
    IF lat1 = Null \/ lon1 = Null \/ lat2 = Null \/ lon2 = Null
    THEN Inf
    ELSE (lat2 - lat1) * (lat2 - lat1) + (lon2 - lon1) * (lon2 - lon1)

----------------------------------------------------------------------------
(* FulfillmentService.find_nearest_eligible_sellers *)

(* lines 64-68 saving the coordinates and also counting an attempt *)
Geocoded_counts_attempt(ords, o, g) ==
    IF (ords[o].latitude = Null \/ ords[o].longitude = Null)
       /\ Truthy(g[1]) /\ Truthy(g[2])
    THEN [ords EXCEPT ![o].latitude = g[1], ![o].longitude = g[2],
                      ![o].assignment_attempts = @ + 1]
    ELSE ords

(* lines 52-70: geocode the address when the order has no coordinates;    *)
(* g is what GeocodingService.get_coordinates answers; "if lat and lon"   *)
(* is Python truthiness; the coordinates are committed to the order.      *)
Geocoded(ords, o, g) ==
    IF (ords[o].latitude = Null \/ ords[o].longitude = Null)
       /\ Truthy(g[1]) /\ Truthy(g[2])
    THEN [ords EXCEPT ![o].latitude = g[1], ![o].longitude = g[2]]
    ELSE ords

(* line 91 satisfied by one line in stock instead of all *)
has_stock_any_line(inv, s, items) ==
    \E i \in 1..Len(items) :
        /\ InvKey(s, items[i]) \in DOMAIN inv
        /\ ~ (inv[InvKey(s, items[i])].quantity
              - inv[InvKey(s, items[i])].reserved_quantity < items[i].quantity)

(* lines 79-93: the seller has a record with quantity - reserved >= required
   for every line of the order *)
has_stock(inv, s, items) ==
    \A i \in 1..Len(items) :
        /\ InvKey(s, items[i]) \in DOMAIN inv
        /\ ~ (inv[InvKey(s, items[i])].quantity
              - inv[InvKey(s, items[i])].reserved_quantity < items[i].quantity)

(* lines 97-98 with missing customer coordinates read as 0 *)
seller_dist_missing_as_zero(sel, ord, s) ==
    calculate_distance(Max(ord.latitude, 0), Max(ord.longitude, 0),
                       sel[s].latitude, sel[s].longitude)

(* lines 96-102 *)
seller_dist(sel, ord, s) ==
    IF ord.latitude # Null /\ ord.longitude # Null
    THEN calculate_distance(ord.latitude, ord.longitude,
                            sel[s].latitude, sel[s].longitude)
    ELSE Inf

(* the key of line 108 without the distance: seller id only *)
RankBefore_by_id_only(sel, ord, a, b) == a <= b

(* line 108: sort by (distance, seller id) *)
RankBefore(sel, ord, a, b) ==
    \/ seller_dist(sel, ord, a) < seller_dist(sel, ord, b)
    \/ seller_dist(sel, ord, a) = seller_dist(sel, ord, b) /\ a <= b

RECURSIVE SortSellers(_, _, _)
SortSellers(sel, ord, S) ==
    IF S = {} THEN <<>>
    ELSE LET m == CHOOSE x \in S : \A y \in S : RankBefore(sel, ord, x, y)
         IN  <<[seller |-> m, dist |-> seller_dist(sel, ord, m)]>>
             \o SortSellers(sel, ord, S \ {m})

Take(seq, limit) == SubSeq(seq, 1, Min(limit, Len(seq)))

find_nearest_eligible_sellers(sel, d, o, limit) ==
    IF o \notin DOMAIN d.orders THEN <<>>
    ELSE LET ord == d.orders[o]
             active_sellers == {s \in DOMAIN sel : sel[s].is_active}
             eligible == {s \in active_sellers : has_stock(d.inventory, s, ord.items)}
         IN  Take(SortSellers(sel, ord, eligible), limit)

----------------------------------------------------------------------------
(* FulfillmentService.fallback_to_admin *)

(* lines 207 and 216 without the floor of lines 208-210 and 217-219 *)
DeductRow_no_floor(row, q) ==
    [row EXCEPT !.stock_quantity = row.stock_quantity - q]

(* lines 207-210 and 216-219: decrement, floor at 0, flag out of stock *)
DeductRow(row, q) ==
    IF row.stock_quantity - q <= 0
    THEN [row EXCEPT !.stock_quantity = 0, !.stock_status = "out_of_stock"]
    ELSE [row EXCEPT !.stock_quantity = row.stock_quantity - q]

RECURSIVE DeductGlobal(_, _, _)
DeductGlobal(d, items, i) ==
    IF i > Len(items) THEN d
    ELSE LET it == items[i]
             vs == IF Truthy(it.variation_id)
                      /\ it.variation_id \in DOMAIN d.variations
                      /\ d.variations[it.variation_id].manage_stock
                   THEN [d.variations EXCEPT ![it.variation_id] = DeductRow(@, it.quantity)]
                   ELSE d.variations
             ps == IF it.product_id \in DOMAIN d.products
                      /\ d.products[it.product_id].manage_stock
                   THEN [d.products EXCEPT ![it.product_id] = DeductRow(@, it.quantity)]
                   ELSE d.products
         IN  DeductGlobal([d EXCEPT !.variations = vs, !.products = ps], items, i + 1)

(* lines 198-220: the local list out_of_stock_alerts, one entry for each
   variation row and each product row that a line takes to 0.  Line 224
   leaves the sending as a TODO: the list is dropped when the function
   returns, and no notification is sent. *)
RECURSIVE out_of_stock_alerts(_, _, _)
out_of_stock_alerts(d, items, i) ==
    IF i > Len(items) THEN <<>>
    ELSE LET it == items[i]
             hasv == Truthy(it.variation_id)
                     /\ it.variation_id \in DOMAIN d.variations
                     /\ d.variations[it.variation_id].manage_stock
             hasp == it.product_id \in DOMAIN d.products
                     /\ d.products[it.product_id].manage_stock
             va == IF hasv /\ d.variations[it.variation_id].stock_quantity - it.quantity <= 0
                   THEN <<[kind |-> "variation", id |-> it.variation_id]>> ELSE <<>>
             pa == IF hasp /\ d.products[it.product_id].stock_quantity - it.quantity <= 0
                   THEN <<[kind |-> "product", id |-> it.product_id]>> ELSE <<>>
         IN  va \o pa \o out_of_stock_alerts(DeductGlobal(d, <<it>>, 1), items, i + 1)

(* line 194 left out: the previous seller stays on the order *)
fallback_keeps_seller(d, o) ==
    LET d1 == [d EXCEPT !.orders[o].fulfillment_source = "admin",
                        !.orders[o].assignment_status = "assigned"]
    IN  [db  |-> DeductGlobal(d1, d1.orders[o].items, 1),
         ret |-> Ret("assign", o, TRUE, "Assigned to Admin Direct Fulfillment")]

fallback_to_admin(d, o) ==
    LET d1 == [d EXCEPT !.orders[o].fulfillment_source = "admin",
                        !.orders[o].assigned_seller_id = Null,
                        !.orders[o].assignment_status = "assigned"]
    IN  [db  |-> DeductGlobal(d1, d1.orders[o].items, 1),
         ret |-> Ret("assign", o, TRUE, "Assigned to Admin Direct Fulfillment")]

----------------------------------------------------------------------------
(* FulfillmentService.assign_order *)

(* the loop of line 158 stopping one line early *)
RECURSIVE LockStock_skips_last(_, _, _, _)
LockStock_skips_last(sess, s, items, i) ==
    IF i >= Len(items) THEN sess
    ELSE LET k == InvKey(s, items[i])
         IN  LockStock_skips_last(
                 IF k \in DOMAIN sess
                 THEN [sess EXCEPT ![k].reserved_quantity = @ + items[i].quantity]
                 ELSE sess,
                 s, items, i + 1)

(* lines 158-165: reserved_quantity += quantity on the seller's record of
   each line, if there is one; sess is the session's view of the table *)
RECURSIVE LockStock(_, _, _, _)
LockStock(sess, s, items, i) ==
    IF i > Len(items) THEN sess
    ELSE LET k == InvKey(s, items[i])
         IN  LockStock(IF k \in DOMAIN sess
                       THEN [sess EXCEPT ![k].reserved_quantity = @ + items[i].quantity]
                       ELSE sess,
                       s, items, i + 1)

(* the flush writes reserved_quantity of the records the loop touched *)
FlushReserved(inv, sess, s, items) ==
    [k \in DOMAIN inv |->
        IF \E i \in 1..Len(items) : k = InvKey(s, items[i])
        THEN [inv[k] EXCEPT !.reserved_quantity = sess[k].reserved_quantity]
        ELSE inv[k]]

(* lines 118-127: load, guard, rank (with the geocoding commit) *)
assign_guard(d, o) ==
    IF o \notin DOMAIN d.orders THEN "Order not found"
    ELSE IF d.orders[o].assignment_status \in {"accepted", "shipped"}
         THEN "Order already accepted or shipped"
         ELSE "ok"

(* the comparison of line 152 turned around *)
china_closer_reversed(ord, best_seller_dist) ==
    /\ ord.latitude # Null /\ ord.longitude # Null
    /\ calculate_distance(ord.latitude, ord.longitude, CHINA_LAT, CHINA_LON)
         > best_seller_dist

(* lines 145-152: the customer has coordinates and is strictly closer to
   the hub than to the proposed seller *)
china_closer(ord, best_seller_dist) ==
    /\ ord.latitude # Null /\ ord.longitude # Null
    /\ calculate_distance(ord.latitude, ord.longitude, CHINA_LAT, CHINA_LON)
         < best_seller_dist

(* lines 132-184 without the auto-accept of lines 175-176 *)
assign_commit_no_auto_accept(sel, d, o, candidates, sess, t) ==
    LET ord == d.orders[o]
        current_attempt_index == ord.assignment_attempts
    IN
    IF current_attempt_index >= Len(candidates)
    THEN fallback_to_admin(d, o)
    ELSE
      LET best == candidates[current_attempt_index + 1]
      IN
      IF china_closer(ord, best.dist)
      THEN fallback_to_admin(d, o)
      ELSE
        LET locked == LockStock(sess, best.seller, ord.items, 1)
            inv1 == FlushReserved(d.inventory, locked, best.seller, ord.items)
            o1 == [ord EXCEPT !.fulfillment_source = "pos",
                              !.assigned_seller_id = best.seller,
                              !.assignment_status = "assigned",
                              !.assignment_attempts = @ + 1,
                              !.assignment_expiry = t + EXPIRY_HOURS]
        IN  [db  |-> [d EXCEPT !.inventory = inv1, !.orders[o] = o1],
             ret |-> Ret("assign", o, TRUE, "Assigned to seller")]

(* lines 132-184, given the candidates and the session's inventory view *)
assign_commit(sel, d, o, candidates, sess, t) ==
    LET ord == d.orders[o]
        current_attempt_index == ord.assignment_attempts
    IN
    IF current_attempt_index >= Len(candidates)
    THEN fallback_to_admin(d, o)
    ELSE
      LET best == candidates[current_attempt_index + 1]
      IN
      IF china_closer(ord, best.dist)
      THEN fallback_to_admin(d, o)
      ELSE
        LET locked == LockStock(sess, best.seller, ord.items, 1)
            inv1 == FlushReserved(d.inventory, locked, best.seller, ord.items)
            st == IF sel[best.seller].auto_accept_orders THEN "accepted" ELSE "assigned"
            o1 == [ord EXCEPT !.fulfillment_source = "pos",
                              !.assigned_seller_id = best.seller,
                              !.assignment_status = st,
                              !.assignment_attempts = @ + 1,
                              !.assignment_expiry = t + EXPIRY_HOURS]
        IN  [db  |-> [d EXCEPT !.inventory = inv1, !.orders[o] = o1],
             ret |-> Ret("assign", o, TRUE, "Assigned to seller")]

(* lines 120 and 124 returning True instead of False *)
assign_order_guard_reports_success(sel, d, o, g, t) ==
    IF assign_guard(d, o) # "ok"
    THEN [db |-> d, ret |-> Ret("assign", o, TRUE, assign_guard(d, o))]
    ELSE LET d1 == [d EXCEPT !.orders = Geocoded(d.orders, o, g)]
             candidates == find_nearest_eligible_sellers(sel, d1, o, ASSIGN_LIMIT)
         IN  assign_commit(sel, d1, o, candidates, d1.inventory, t)

assign_order(sel, d, o, g, t) ==
    IF assign_guard(d, o) # "ok"
    THEN [db |-> d, ret |-> Ret("assign", o, FALSE, assign_guard(d, o))]
    ELSE LET d1 == [d EXCEPT !.orders = Geocoded(d.orders, o, g)]
             candidates == find_nearest_eligible_sellers(sel, d1, o, ASSIGN_LIMIT)
         IN  assign_commit(sel, d1, o, candidates, d1.inventory, t)

----------------------------------------------------------------------------
(* pos_api.accept_order *)

(* lines 54-58 left out: any signed-in seller accepts any order *)
accept_order_unchecked(d, u, o) ==
    IF u = Null
    THEN [db |-> d, ret |-> Ret("accept", o, FALSE, "Unauthorized")]
    ELSE IF o \notin DOMAIN d.orders
    THEN [db |-> d, ret |-> Ret("accept", o, FALSE, "Order not found or not assigned to you")]
    ELSE [db  |-> [d EXCEPT !.orders[o].assignment_status = "accepted"],
          ret |-> Ret("accept", o, TRUE, "Order accepted successfully")]

(* lines 48-66 *)
accept_order(d, u, o) ==
    IF u = Null
    THEN [db |-> d, ret |-> Ret("accept", o, FALSE, "Unauthorized")]
    ELSE IF o \notin DOMAIN d.orders \/ d.orders[o].assigned_seller_id # u
    THEN [db |-> d, ret |-> Ret("accept", o, FALSE, "Order not found or not assigned to you")]
    ELSE IF d.orders[o].assignment_status # "assigned"
    THEN [db |-> d, ret |-> Ret("accept", o, FALSE, "Order is not in pending state")]
    ELSE [db  |-> [d EXCEPT !.orders[o].assignment_status = "accepted"],
          ret |-> Ret("accept", o, TRUE, "Order accepted successfully")]

----------------------------------------------------------------------------
(* pos_api.reject_order *)

(* lines 86-93 without the floor of line 94 *)
RECURSIVE ReleaseStock_unclamped(_, _, _, _)
ReleaseStock_unclamped(inv, s, items, i) ==
    IF i > Len(items) THEN inv
    ELSE LET k == InvKey(s, items[i])
         IN  ReleaseStock_unclamped(
                 IF k \in DOMAIN inv
                 THEN [inv EXCEPT ![k].reserved_quantity = @ - items[i].quantity]
                 ELSE inv,
                 s, items, i + 1)

(* lines 86-94: reserved_quantity -= quantity, floored at 0 *)
RECURSIVE ReleaseStock(_, _, _, _)
ReleaseStock(inv, s, items, i) ==
    IF i > Len(items) THEN inv
    ELSE LET k == InvKey(s, items[i])
         IN  ReleaseStock(IF k \in DOMAIN inv
                          THEN [inv EXCEPT ![k].reserved_quantity =
                                               Max(0, @ - items[i].quantity)]
                          ELSE inv,
                          s, items, i + 1)

(* the reject starting the order's attempts over before it reassigns *)
reject_order_resets_attempts(sel, d, u, o, g, t) ==
    IF u = Null
    THEN [db |-> d, ret |-> Ret("reject", o, FALSE, "Unauthorized")]
    ELSE IF o \notin DOMAIN d.orders \/ d.orders[o].assigned_seller_id # u
    THEN [db |-> d, ret |-> Ret("reject", o, FALSE, "Order not found or not assigned to you")]
    ELSE LET d1 == [d EXCEPT !.inventory = ReleaseStock(d.inventory, u, d.orders[o].items, 1),
                             !.orders[o].assigned_seller_id = Null,
                             !.orders[o].assignment_status = "rejected",
                             !.orders[o].assignment_attempts = 0]
             a == assign_order(sel, d1, o, g, t)
         IN  [db |-> a.db, ret |-> Ret("reject", o, TRUE, a.ret.msg)]

reject_order(sel, d, u, o, g, t) ==
    IF u = Null
    THEN [db |-> d, ret |-> Ret("reject", o, FALSE, "Unauthorized")]
    ELSE IF o \notin DOMAIN d.orders \/ d.orders[o].assigned_seller_id # u
    THEN [db |-> d, ret |-> Ret("reject", o, FALSE, "Order not found or not assigned to you")]
    ELSE LET d1 == [d EXCEPT !.inventory = ReleaseStock(d.inventory, u, d.orders[o].items, 1),
                             !.orders[o].assigned_seller_id = Null,
                             !.orders[o].assignment_status = "rejected"]
             a == assign_order(sel, d1, o, g, t)
         IN  [db |-> a.db, ret |-> Ret("reject", o, TRUE, a.ret.msg)]

----------------------------------------------------------------------------
(* pos_api.create_order (walk-in sale) *)

(* lines 142-182 check every line against inventory.quantity and deduct it
   in the session; lines 214-232 then construct Order(email=...,
   payment_status=..., subtotal=...): the Order model (models/order.py) has
   none of these attributes, so the declarative constructor raises
   TypeError, the handler's except branch rolls the session back and
   answers 500.  An early 400 leaves the session uncommitted as well.  The
   tables are therefore never changed by this handler. *)
RECURSIVE SaleChecks(_, _, _, _)
SaleChecks(inv, u, items, i) ==
    IF i > Len(items) THEN TRUE
    ELSE LET k == InvKey(u, items[i])
         IN  IF k \notin DOMAIN inv \/ inv[k].quantity < items[i].quantity
             THEN FALSE
             ELSE SaleChecks([inv EXCEPT ![k].quantity = @ - items[i].quantity],
                             u, items, i + 1)

create_order(d, u, items) ==
    IF u = Null
    THEN [db |-> d, ret |-> Ret("create", Null, FALSE, "Unauthorized")]
    ELSE IF ~ SaleChecks(d.inventory, u, items, 1)
    THEN [db |-> d, ret |-> Ret("create", Null, FALSE, "Insufficient stock")]
    ELSE [db |-> d, ret |-> Ret("create", Null, FALSE, "invalid keyword argument for Order")]

----------------------------------------------------------------------------
(* Initial tables *)

SkuA == Line(1, Null, 1)
SkuB == Line(2, 1, 1)

Seller(active, auto, lat, lon) ==
    [is_active |-> active, auto_accept_orders |-> auto, latitude |-> lat, longitude |-> lon]

Stock(q) == [quantity |-> q, reserved_quantity |-> 0]

Catalog(managed, q) ==
    [manage_stock |-> managed, stock_quantity |-> q,
     stock_status |-> IF q > 0 THEN "in_stock" ELSE "out_of_stock"]

(* models/order.py defaults: status 'pending', fulfillment_source 'admin',
   no seller, no assignment status, assignment_attempts 0, no expiry *)
NewOrder(items, lat, lon) ==
    [items |-> items, latitude |-> lat, longitude |-> lon, status |-> "pending",
     fulfillment_source |-> "admin", assigned_seller_id |-> Null,
     assignment_status |-> NoStatus, assignment_attempts |-> 0,
     assignment_expiry |-> Null]

(* answers of GeocodingService.get_coordinates: failure, a point on the
   equator (falsy latitude), a point *)
GeoResults == {<<Null, Null>>, <<0, 113>>, <<22, 113>>}

NoRequest == [pc |-> "idle", candidates |-> <<>>, sess |-> <<>>]

(* The hub is at (23,113).  Seller 1 is the nearest to order 1 and holds
   one unit of each SKU, seller 2 has no coordinates, seller 3 is as far
   from order 1 as the hub and accepts automatically, seller 4 is short of
   SKU A and has no record of SKU B, seller 5 is switched off.  Order 2
   has no coordinates yet; in one of the two initial states it lists SKU B
   on two lines. *)
Init ==
    /\ sellers = (1 :> Seller(TRUE, FALSE, 24, 113))
               @@ (2 :> Seller(TRUE, FALSE, Null, Null))
               @@ (3 :> Seller(TRUE, TRUE, 25, 113))
               @@ (4 :> Seller(TRUE, FALSE, 24, 113))
               @@ (5 :> Seller(FALSE, FALSE, 24, 113))
    /\ inventory = (<<1, 1, Null>> :> Stock(1)) @@ (<<1, 2, 1>> :> Stock(1))
                @@ (<<2, 1, Null>> :> Stock(1)) @@ (<<2, 2, 1>> :> Stock(1))
                @@ (<<3, 1, Null>> :> Stock(2)) @@ (<<3, 2, 1>> :> Stock(1))
                @@ (<<4, 1, Null>> :> Stock(0))
                @@ (<<5, 1, Null>> :> Stock(2)) @@ (<<5, 2, 1>> :> Stock(2))
    /\ products = (1 :> Catalog(TRUE, 2)) @@ (2 :> Catalog(FALSE, 1))
    /\ variations = (1 :> Catalog(TRUE, 1))
    /\ \E items2 \in {<<SkuA, SkuB>>, <<SkuA, SkuB, SkuB>>} :
         orders = (1 :> NewOrder(<<SkuA>>, 24, 113))
               @@ (2 :> NewOrder(items2, Null, Null))
    /\ now = 0
    /\ ret = Ret("init", Null, TRUE, "")
    /\ req = [o \in {1, 2} |-> NoRequest]
    /\ alerts = <<>>

----------------------------------------------------------------------------
(* Requests run one at a time *)

Commit(r) ==
    /\ orders' = r.db.orders
    /\ inventory' = r.db.inventory
    /\ products' = r.db.products
    /\ variations' = r.db.variations
    /\ alerts' = r.db.alerts
    /\ ret' = r.ret
    /\ UNCHANGED <<sellers, now, req>>

Users == DOMAIN sellers \cup {Null}
OrderIds == DOMAIN orders \cup {Null}

(* the geocoder is asked only for an order without coordinates (line 53) *)
GeoAnswers(o) ==
    IF o \in DOMAIN orders /\ (orders[o].latitude = Null \/ orders[o].longitude = Null)
    THEN GeoResults
    ELSE {<<Null, Null>>}

AssignOrder(o) ==
    \E g \in GeoAnswers(o) : Commit(assign_order(sellers, DB, o, g, now))

AcceptOrder(u, o) ==
    Commit(accept_order(DB, u, o))

RejectOrder(u, o) ==
    \E g \in GeoAnswers(o) : Commit(reject_order(sellers, DB, u, o, g, now))

CreateOrder(u, it) ==
    Commit(create_order(DB, u, <<it>>))

Tick ==
    /\ now < MaxNow
    /\ now' = now + 1
    /\ UNCHANGED <<sellers, inventory, products, variations, orders, ret, req, alerts>>

Next ==
    \/ \E o \in OrderIds : AssignOrder(o)
    \/ \E u \in Users, o \in OrderIds : AcceptOrder(u, o)
    \/ \E u \in Users, o \in OrderIds : RejectOrder(u, o)
    \/ \E u \in Users, it \in {SkuA, SkuB} : CreateOrder(u, it)
    \/ Tick

Spec == Init /\ [][Next]_vars

----------------------------------------------------------------------------
(* assign_order calls of different orders interleaved: each call ranks
   (lines 118-127) in one step and picks, reserves and commits (lines
   132-184) in a later one.  The POSInventory objects the second step
   updates were loaded into the session by the ranking; depending on the
   isolation level the increment applies to the value read then or to the
   current one. *)

AssignRank(o) ==
    /\ req[o].pc = "idle"
    /\ IF assign_guard(DB, o) # "ok"
       THEN /\ ret' = Ret("assign", o, FALSE, assign_guard(DB, o))
            /\ UNCHANGED <<sellers, inventory, products, variations, orders, now, req, alerts>>
       ELSE \E g \in GeoAnswers(o) :
            /\ orders' = Geocoded(orders, o, g)
            /\ req' = [req EXCEPT ![o] =
                 [pc |-> "ranked",
                  candidates |-> find_nearest_eligible_sellers(
                                     sellers, [DB EXCEPT !.orders = orders'], o, ASSIGN_LIMIT),
                  sess |-> inventory]]
            /\ UNCHANGED <<sellers, inventory, products, variations, now, ret, alerts>>

AssignFinish(o) ==
    /\ req[o].pc = "ranked"
    /\ \E sess \in {req[o].sess, inventory} :
         LET r == assign_commit(sellers, DB, o, req[o].candidates, sess, now)
         IN  /\ orders' = r.db.orders
             /\ inventory' = r.db.inventory
             /\ products' = r.db.products
             /\ variations' = r.db.variations
             /\ ret' = r.ret
    /\ req' = [req EXCEPT ![o] = NoRequest]
    /\ UNCHANGED <<sellers, now, alerts>>

ConcNext ==
    \/ \E o \in DOMAIN orders : AssignRank(o)
    \/ \E o \in DOMAIN orders : AssignFinish(o)

ConcSpec == Init /\ [][ConcNext]_vars

----------------------------------------------------------------------------
(* The ranker on its own, as assign_order calls it (line 127), over seller
   tables of up to MaxRankSellers rows, more than the limit of 20.  Seller
   s stands at latitude 23 + s mod 4; at most one seller each is switched
   off, has SKU B fully reserved, has no record of SKU B, or has no
   coordinates. *)

RankSeller(s, off, nocoord) ==
    Seller(s # off, FALSE,
           IF s = nocoord THEN Null ELSE 23 + (s % 4),
           IF s = nocoord THEN Null ELSE 113)

RankInventory(n, short, norec) ==
    [k \in {<<s, 1, Null>> : s \in 1..n} \cup {<<s, 2, 1>> : s \in (1..n) \ {norec}} |->
        IF k[2] = 2 /\ k[1] = short
        THEN [quantity |-> 1, reserved_quantity |-> 1]
        ELSE Stock(1)]

RankInit ==
    /\ \E n \in 0..MaxRankSellers, off \in {0, 2}, short \in {0, 3},
          norec \in {0, 4}, nocoord \in {0, 5} :
         /\ sellers = [s \in 1..n |-> RankSeller(s, off, nocoord)]
         /\ inventory = RankInventory(n, short, norec)
    /\ products = (1 :> Catalog(TRUE, 2)) @@ (2 :> Catalog(FALSE, 0))
    /\ variations = (1 :> Catalog(TRUE, 1))
    /\ \E lat \in {Null, 24} :
         orders = (1 :> NewOrder(<<SkuA, SkuB>>, lat, IF lat = Null THEN Null ELSE 113))
    /\ now = 0
    /\ ret = Ret("init", Null, TRUE, "")
    /\ req = [o \in {1} |-> NoRequest]
    /\ alerts = <<>>

RankStep(o) ==
    \E g \in GeoAnswers(o) :
        /\ orders' = Geocoded(orders, o, g)
        /\ ret' = [op |-> "rank", order |-> o, success |-> TRUE, msg |-> "",
                   candidates |-> find_nearest_eligible_sellers(
                       sellers, [DB EXCEPT !.orders = orders'], o, ASSIGN_LIMIT)]
        /\ UNCHANGED <<sellers, inventory, products, variations, now, req, alerts>>

RankNext == \E o \in DOMAIN orders : RankStep(o)

RankSpec == RankInit /\ [][RankNext]_vars

----------------------------------------------------------------------------
(* The assignment window.  Line 172 stamps the order with utcnow() + 24h;
   between two requests the wall clock may advance by any amount, here by
   more than the window.  No request handler, job or thread of the
   application reads assignment_expiry again except to display it
   (pos_api.py line 37), so time passing changes no table. *)

Elapse ==
    /\ now < MaxNow + EXPIRY_HOURS
    /\ now' = now + EXPIRY_HOURS + 1
    /\ UNCHANGED <<sellers, inventory, products, variations, orders, ret, req, alerts>>

ExpiryNext ==
    \/ \E o \in DOMAIN orders : AssignOrder(o)
    \/ \E u \in DOMAIN sellers, o \in DOMAIN orders : AcceptOrder(u, o)
    \/ \E u \in DOMAIN sellers, o \in DOMAIN orders : RejectOrder(u, o)
    \/ Tick
    \/ Elapse

(* the clock never stops; no request is ever bound to arrive *)
ExpirySpec == Init /\ [][ExpiryNext]_vars /\ WF_vars(Tick) /\ WF_vars(Elapse)

----------------------------------------------------------------------------
(* Cancelling an order.  The only code that cancels is the admin's status
   form, routes/orders.py update_status: it writes order.status when the
   new value differs and commits; it touches neither the routing fields
   nor any inventory record. *)

update_status(d, o, new_status) ==
    IF o \notin DOMAIN d.orders
    THEN [db |-> d, ret |-> Ret("update_status", o, FALSE, "Not Found")]
    ELSE IF new_status # d.orders[o].status
    THEN [db  |-> [d EXCEPT !.orders[o].status = new_status],
          ret |-> Ret("update_status", o, TRUE, new_status)]
    ELSE [db |-> d, ret |-> Ret("update_status", o, TRUE, new_status)]

UpdateStatus(o, new_status) ==
    Commit(update_status(DB, o, new_status))

CancelNext ==
    \/ \E o \in DOMAIN orders : AssignOrder(o)
    \/ \E u \in DOMAIN sellers, o \in DOMAIN orders : AcceptOrder(u, o)
    \/ \E u \in DOMAIN sellers, o \in DOMAIN orders : RejectOrder(u, o)
    \/ \E o \in OrderIds : UpdateStatus(o, "cancelled")

CancelSpec == Init /\ [][CancelNext]_vars

----------------------------------------------------------------------------
(* The release of reject_order over every value the reserved counters of
   the rejecting seller can have.  Order 1 is assigned to seller 1; lost
   updates and repeated requests can leave that seller's counters at any
   value, and a record can be missing; seller 2 is in stock. *)

ReleaseInit ==
    /\ sellers = (1 :> Seller(TRUE, FALSE, 24, 113)) @@ (2 :> Seller(TRUE, FALSE, 25, 113))
    /\ \E qa \in 1..2, ra \in 0..MaxReserved, hasb \in BOOLEAN,
          qb \in 1..2, rb \in 0..MaxReserved :
         /\ hasb \/ (qb = 1 /\ rb = 0)
         /\ inventory =
              (<<1, 1, Null>> :> [quantity |-> qa, reserved_quantity |-> ra])
              @@ (IF hasb
                  THEN (<<1, 2, 1>> :> [quantity |-> qb, reserved_quantity |-> rb])
                  ELSE <<>>)
              @@ (<<2, 1, Null>> :> Stock(2)) @@ (<<2, 2, 1>> :> Stock(2))
    /\ products = (1 :> Catalog(TRUE, 2)) @@ (2 :> Catalog(FALSE, 0))
    /\ variations = (1 :> Catalog(TRUE, 1))
    /\ \E items \in {<<SkuA>>, <<SkuA, SkuB>>, <<SkuA, SkuB, SkuB>>,
                      <<Line(1, Null, 2), SkuB>>} :
         orders = (1 :> [NewOrder(items, 24, 113) EXCEPT
                            !.fulfillment_source = "pos",
                            !.assigned_seller_id = 1,
                            !.assignment_status = "assigned",
                            !.assignment_attempts = 1,
                            !.assignment_expiry = EXPIRY_HOURS])
    /\ now = 0
    /\ ret = Ret("init", Null, TRUE, "")
    /\ req = [o \in {1} |-> NoRequest]
    /\ alerts = <<>>

ReleaseNext == \E u \in DOMAIN sellers, o \in DOMAIN orders : RejectOrder(u, o)

ReleaseSpec == ReleaseInit /\ [][ReleaseNext]_vars

----------------------------------------------------------------------------
(* The distance on its own: one seller in stock and one order, each at
   any point of a grid of whole degrees around the hub; the ranker
   computes the distance from the customer to the seller (lines 99-102). *)

GridLat == (CHINA_LAT - 1)..(CHINA_LAT - 1 + MaxDegrees)
GridLon == (CHINA_LON - 1)..(CHINA_LON - 1 + MaxDegrees)

DistInit ==
    /\ \E lat \in GridLat, lon \in GridLon :
         sellers = (1 :> Seller(TRUE, FALSE, lat, lon))
    /\ inventory = (<<1, 1, Null>> :> Stock(1))
    /\ products = (1 :> Catalog(TRUE, 2))
    /\ variations = (1 :> Catalog(TRUE, 1))
    /\ \E lat \in GridLat, lon \in GridLon :
         orders = (1 :> NewOrder(<<SkuA>>, lat, lon))
    /\ now = 0
    /\ ret = Ret("init", Null, TRUE, "")
    /\ req = [o \in {1} |-> NoRequest]
    /\ alerts = <<>>

DistNext == \E o \in DOMAIN orders : RankStep(o)

DistSpec == DistInit /\ [][DistNext]_vars

----------------------------------------------------------------------------
(* Answers of sellers running side by side.  Every request has its own
   session (Flask-SQLAlchemy scopes the session to the request).
   accept_order loads the order and checks it (pos_api.py lines 53-58) and
   later writes the status and commits (lines 61-62).  reject_order loads
   and checks (lines 80-82), then releases, clears the assignment and
   commits (lines 86-110), then calls assign_order (line 113), which opens
   a new transaction and reads the tables as they are then.  The check is
   never repeated: the writes are UPDATEs by primary key of the columns
   the request changed.  The inventory rows are read at lines 87-91; as in
   the assignment above, the decrement applies to the value of the
   request's snapshot or to the current one, depending on the isolation
   level.  req[r] holds request r between its steps; at most two requests
   are in flight, at most one of them an accept. *)

Slots == {1, 2}

(* two sellers in stock, nearer to both orders than the hub or as near;
   both orders have coordinates *)
AnswerInit ==
    /\ sellers = (1 :> Seller(TRUE, FALSE, 24, 113)) @@ (2 :> Seller(TRUE, FALSE, 25, 113))
    /\ inventory = (<<1, 1, Null>> :> Stock(1)) @@ (<<1, 2, 1>> :> Stock(1))
                @@ (<<2, 1, Null>> :> Stock(2)) @@ (<<2, 2, 1>> :> Stock(1))
    /\ products = (1 :> Catalog(TRUE, 2)) @@ (2 :> Catalog(FALSE, 1))
    /\ variations = (1 :> Catalog(TRUE, 1))
    /\ orders = (1 :> NewOrder(<<SkuA>>, 24, 113))
              @@ (2 :> NewOrder(<<SkuA, SkuB>>, 24, 113))
    /\ now = 0
    /\ ret = Ret("init", Null, TRUE, "")
    /\ req = [r \in Slots |-> NoRequest]
    /\ alerts = <<>>

Checked(pc, u, o) ==
    [pc |-> pc, candidates |-> <<>>, sess |-> inventory, u |-> u, o |-> o,
     ord |-> orders[o]]

AcceptCheck(r, u, o) ==
    /\ req[r].pc = "idle"
    /\ IF accept_order(DB, u, o).ret.success
       THEN /\ req' = [req EXCEPT ![r] = Checked("accept_checked", u, o)]
            /\ UNCHANGED ret
       ELSE /\ ret' = accept_order(DB, u, o).ret
            /\ UNCHANGED req
    /\ UNCHANGED <<sellers, inventory, products, variations, orders, now, alerts>>

AcceptWrite(r) ==
    /\ req[r].pc = "accept_checked"
    /\ orders' = [orders EXCEPT ![req[r].o].assignment_status = "accepted"]
    /\ ret' = Ret("accept", req[r].o, TRUE, "Order accepted successfully")
    /\ req' = [req EXCEPT ![r] = NoRequest]
    /\ UNCHANGED <<sellers, inventory, products, variations, now, alerts>>

RejectCheck(r, u, o) ==
    /\ req[r].pc = "idle"
    /\ IF o \in DOMAIN orders /\ orders[o].assigned_seller_id = u
       THEN /\ req' = [req EXCEPT ![r] = Checked("reject_checked", u, o)]
            /\ UNCHANGED ret
       ELSE /\ ret' = Ret("reject", o, FALSE, "Order not found or not assigned to you")
            /\ UNCHANGED req
    /\ UNCHANGED <<sellers, inventory, products, variations, orders, now, alerts>>

RejectRelease(r) ==
    /\ req[r].pc = "reject_checked"
    /\ \E sess \in {req[r].sess, inventory} :
         inventory' = FlushReserved(inventory,
                                    ReleaseStock(sess, req[r].u, req[r].ord.items, 1),
                                    req[r].u, req[r].ord.items)
    /\ orders' = [orders EXCEPT ![req[r].o].assigned_seller_id = Null,
                                ![req[r].o].assignment_status = "rejected"]
    /\ req' = [req EXCEPT ![r].pc = "reject_released"]
    /\ UNCHANGED <<sellers, products, variations, now, ret, alerts>>

RejectReassign(r) ==
    /\ req[r].pc = "reject_released"
    /\ \E g \in GeoAnswers(req[r].o) :
         LET a == assign_order(sellers, DB, req[r].o, g, now)
         IN  /\ orders' = a.db.orders
             /\ inventory' = a.db.inventory
             /\ products' = a.db.products
             /\ variations' = a.db.variations
             /\ ret' = Ret("reject", req[r].o, TRUE, a.ret.msg)
    /\ req' = [req EXCEPT ![r] = NoRequest]
    /\ UNCHANGED <<sellers, now, alerts>>

(* checkout.py line 425: a new order is routed once, when it is created *)
Checkout(o) ==
    /\ orders[o].assignment_status = NoStatus
    /\ AssignOrder(o)

AnswerNext ==
    \/ \E o \in DOMAIN orders : Checkout(o)
    \/ \E u \in DOMAIN sellers, o \in DOMAIN orders : AcceptCheck(1, u, o)
    \/ \E r \in Slots : AcceptWrite(r)
    \/ \E r \in Slots, u \in DOMAIN sellers, o \in DOMAIN orders : RejectCheck(r, u, o)
    \/ \E r \in Slots : RejectRelease(r)
    \/ \E r \in Slots : RejectReassign(r)

AnswerSpec == AnswerInit /\ [][AnswerNext]_vars

----------------------------------------------------------------------------
(* The admin's override, admin_fulfillment_api.override_assignment.  With
   target admin, the branch that should release the old seller's stock is
   "pass" (lines 41-45); fallback_to_admin is called and its result is not
   looked at (lines 47-48).  With target pos the answer is 501. *)

override_assignment(d, o, target) ==
    IF o \notin DOMAIN d.orders
    THEN [db |-> d, ret |-> Ret("override", o, FALSE, "Order not found")]
    ELSE IF target = "admin"
    THEN [db  |-> fallback_to_admin(d, o).db,
          ret |-> Ret("override", o, TRUE, "Forced assignment to Admin")]
    ELSE [db |-> d, ret |-> Ret("override", o, FALSE,
                                "Manual POS assignment not yet implemented")]

OverrideAssignment(o, target) ==
    Commit(override_assignment(DB, o, target))

OverrideNext ==
    \/ \E o \in DOMAIN orders : Checkout(o)
    \/ \E u \in DOMAIN sellers, o \in DOMAIN orders : AcceptOrder(u, o)
    \/ \E u \in DOMAIN sellers, o \in DOMAIN orders : RejectOrder(u, o)
    \/ \E o \in OrderIds, target \in {"admin", "pos"} : OverrideAssignment(o, target)

OverrideSpec == Init /\ [][OverrideNext]_vars

----------------------------------------------------------------------------
(* Rerouting under answering sellers.  A new order is routed once by the
   checkout; the seller an order waits for answers it, by accepting or by
   rejecting (which routes the order again, pos_api.py line 113).  Any
   seller may send any request; only the answer of the seller holding an
   assigned order is bound to come. *)

Respond(o) ==
    /\ orders[o].assignment_status = "assigned"
    /\ orders[o].assigned_seller_id # Null
    /\ \/ AcceptOrder(orders[o].assigned_seller_id, o)
       \/ RejectOrder(orders[o].assigned_seller_id, o)

RerouteNext ==
    \/ \E o \in DOMAIN orders : Checkout(o)
    \/ \E u \in DOMAIN sellers, o \in DOMAIN orders : AcceptOrder(u, o)
    \/ \E u \in DOMAIN sellers, o \in DOMAIN orders : RejectOrder(u, o)
    \/ Tick

RerouteSpec ==
    AnswerInit /\ [][RerouteNext]_vars /\ \A o \in 1..2 : WF_vars(Respond(o))

----------------------------------------------------------------------------
(* assign_order with a failure in its seller step.  Lines 157-178 run in a
   try block: an error raised by a query of line 159 or by the commit of
   line 178 (lost connection, lock wait timeout, deadlock victim) is caught
   at line 182, the session is rolled back and (False, "Assignment
   failed: ...") is returned.  Nothing of the block was committed before,
   so the rollback discards the increments and the order's new fields; the
   coordinates the ranking committed at line 68 stay.  A failure on the
   fallback path is fallback_to_admin's own (lines 225-227) and is not
   modelled here. *)

(* the except branch of line 182 without the rollback of line 183: the
   increments stay in the session and reach the table with its next commit *)
assign_commit_raising_no_rollback(sel, d, o, candidates, sess, t) ==
    LET ord == d.orders[o]
        current_attempt_index == ord.assignment_attempts
    IN
    IF current_attempt_index >= Len(candidates)
    THEN fallback_to_admin(d, o)
    ELSE
      LET best == candidates[current_attempt_index + 1]
      IN
      IF china_closer(ord, best.dist)
      THEN fallback_to_admin(d, o)
      ELSE
        LET locked == LockStock(sess, best.seller, ord.items, 1)
            inv1 == FlushReserved(d.inventory, locked, best.seller, ord.items)
        IN  [db  |-> [d EXCEPT !.inventory = inv1],
             ret |-> Ret("assign", o, FALSE, "Assignment failed")]

(* lines 132-184 when the try block raises *)
assign_commit_raising(sel, d, o, candidates, sess, t) ==
    LET ord == d.orders[o]
        current_attempt_index == ord.assignment_attempts
    IN
    IF current_attempt_index >= Len(candidates)
    THEN fallback_to_admin(d, o)
    ELSE
      LET best == candidates[current_attempt_index + 1]
      IN
      IF china_closer(ord, best.dist)
      THEN fallback_to_admin(d, o)
      ELSE [db |-> d, ret |-> Ret("assign", o, FALSE, "Assignment failed")]

assign_order_raising(sel, d, o, g, t) ==
    IF assign_guard(d, o) # "ok"
    THEN [db |-> d, ret |-> Ret("assign", o, FALSE, assign_guard(d, o))]
    ELSE LET d1 == [d EXCEPT !.orders = Geocoded(d.orders, o, g)]
             candidates == find_nearest_eligible_sellers(sel, d1, o, ASSIGN_LIMIT)
         IN  assign_commit_raising(sel, d1, o, candidates, d1.inventory, t)

AssignOrderRaises(o) ==
    \E g \in GeoAnswers(o) : Commit(assign_order_raising(sellers, DB, o, g, now))

FaultNext ==
    \/ \E o \in DOMAIN orders : AssignOrder(o)
    \/ \E o \in DOMAIN orders : AssignOrderRaises(o)
    \/ \E u \in DOMAIN sellers, o \in DOMAIN orders : AcceptOrder(u, o)
    \/ \E u \in DOMAIN sellers, o \in DOMAIN orders : RejectOrder(u, o)

FaultSpec == Init /\ [][FaultNext]_vars

----------------------------------------------------------------------------
(* Properties *)

(* units of one SKU an order asks for, over all its lines *)
RECURSIVE Needed(_, _, _, _)
Needed(items, p, v, i) ==
    IF i > Len(items) THEN 0
    ELSE (IF items[i].product_id = p /\ items[i].variation_id = v
          THEN items[i].quantity ELSE 0) + Needed(items, p, v, i + 1)

(* a finished request that was a direct assign_order call for order o *)
AssignStep(o) ==
    /\ o \in DOMAIN orders
    /\ ret'.op = "assign" /\ ret'.order = o
    /\ now' = now

(* C1: for every seller inventory record, in every state reachable by
   assign, accept, reject and walk-in sale, 0 <= reserved <= onHand. *)
C1_ReservedWithinOnHand ==
    \A k \in DOMAIN inventory :
        /\ 0 <= inventory[k].reserved_quantity
        /\ inventory[k].reserved_quantity <= inventory[k].quantity

(* C2: two assign calls of different orders that each need one unit of a
   SKU of which a seller holds exactly one unit, interleaved in any way,
   never leave both orders assigned to that seller. *)
C2_NeverBothAtSeller ==
    \A k \in DOMAIN inventory : \A o1, o2 \in DOMAIN orders :
        (/\ o1 # o2
         /\ inventory[k].quantity = 1
         /\ Needed(orders[o1].items, k[2], k[3], 1) = 1
         /\ Needed(orders[o2].items, k[2], k[3], 1) = 1)
        => ~ (orders[o1].assigned_seller_id = k[1] /\ orders[o2].assigned_seller_id = k[1])

(* C3: assignedSellerId is non-null if and only if the assignment status
   is assigned or accepted. *)
C3_SellerIffAssigned ==
    \A o \in DOMAIN orders :
        (orders[o].assigned_seller_id # Null)
            <=> (orders[o].assignment_status \in {"assigned", "accepted"})

(* C4: an assign call that directly follows an assign call for the same
   order reserves nothing more: every reserved counter is as the first
   call left it. *)
C4_NoDoubleReserve ==
    [][\A o \in DOMAIN orders :
          (AssignStep(o) /\ ret.op = "assign" /\ ret.order = o)
          => \A k \in DOMAIN inventory :
                inventory'[k].reserved_quantity = inventory[k].reserved_quantity]_vars

(* the order has been routed to admin fallback *)
AtAdmin(ord) ==
    /\ ord.fulfillment_source = "admin"
    /\ ord.assigned_seller_id = Null
    /\ ord.assignment_status = "assigned"

(* C5: assign on an order that is accepted, or already routed to admin
   fallback, returns success = false and changes no routing field, no
   seller inventory record and no global stock. *)
C5_AssignAfterRoutingIsNoOp ==
    [][\A o \in DOMAIN orders :
          (AssignStep(o)
           /\ (orders[o].assignment_status = "accepted" \/ AtAdmin(orders[o])))
          => /\ ret'.success = FALSE
             /\ UNCHANGED <<orders, inventory, products, variations>>]_vars

(* sellers that are active and cover every line of the order *)
Eligible(sel, inv, ord) ==
    {s \in DOMAIN sel :
        /\ sel[s].is_active
        /\ \A i \in 1..Len(ord.items) :
              /\ InvKey(s, ord.items[i]) \in DOMAIN inv
              /\ inv[InvKey(s, ord.items[i])].quantity
                 - inv[InvKey(s, ord.items[i])].reserved_quantity >= ord.items[i].quantity}

HubDist(ord) == calculate_distance(ord.latitude, ord.longitude, CHINA_LAT, CHINA_LON)
SellerDist(sel, ord, s) ==
    calculate_distance(ord.latitude, ord.longitude, sel[s].latitude, sel[s].longitude)

HubCloserThanAll(ord, inv) ==
    \A s \in Eligible(sellers, inv, ord) : HubDist(ord) < SellerDist(sellers, ord, s)

(* units of a product, and of a variation, an order asks for *)
RECURSIVE NeededProduct(_, _, _)
NeededProduct(items, p, i) ==
    IF i > Len(items) THEN 0
    ELSE (IF items[i].product_id = p THEN items[i].quantity ELSE 0)
         + NeededProduct(items, p, i + 1)

RECURSIVE NeededVariation(_, _, _)
NeededVariation(items, v, i) ==
    IF i > Len(items) THEN 0
    ELSE (IF items[i].variation_id = v THEN items[i].quantity ELSE 0)
         + NeededVariation(items, v, i + 1)

ReservedUnchanged ==
    \A k \in DOMAIN inventory :
        inventory'[k].reserved_quantity = inventory[k].reserved_quantity

(* an assign_order call that got past its guard (line 123) *)
RoutingStep(o) ==
    /\ AssignStep(o)
    /\ orders[o].assignment_status \notin {"accepted", "shipped"}

(* C6 as stated: if the hub is strictly closer to the customer than every
   eligible seller, assign leaves the order without seller, changes no
   reserved counter and lowers the global stock by the order's quantities. *)
C6_HubCloserDeductsQuantities ==
    [][\A o \in DOMAIN orders :
          (RoutingStep(o) /\ HubCloserThanAll(orders'[o], inventory))
          => /\ orders'[o].assigned_seller_id = Null
             /\ orders'[o].fulfillment_source = "admin"
             /\ ReservedUnchanged
             /\ \A p \in DOMAIN products :
                   products'[p].stock_quantity =
                       products[p].stock_quantity - NeededProduct(orders[o].items, p, 1)
             /\ \A v \in DOMAIN variations :
                   variations'[v].stock_quantity =
                       variations[v].stock_quantity - NeededVariation(orders[o].items, v, 1)]_vars

(* C6 amended: if the hub is strictly closer to the customer than every
   eligible seller, assign leaves the order without seller at admin
   fulfilment, changes no reserved counter, and lowers the global stock of
   every stock-managed product and variation on the order by the ordered
   quantity, stopping at 0; stock that is not managed is left alone. *)
C6_HubCloserFallsBack ==
    [][\A o \in DOMAIN orders :
          (RoutingStep(o) /\ HubCloserThanAll(orders'[o], inventory))
          => /\ orders'[o].assigned_seller_id = Null
             /\ orders'[o].fulfillment_source = "admin"
             /\ ReservedUnchanged
             /\ \A p \in DOMAIN products :
                   products'[p].stock_quantity =
                       IF products[p].manage_stock
                       THEN Max(0, products[p].stock_quantity
                                   - NeededProduct(orders[o].items, p, 1))
                       ELSE products[p].stock_quantity
             /\ \A v \in DOMAIN variations :
                   variations'[v].stock_quantity =
                       IF variations[v].manage_stock
                       THEN Max(0, variations[v].stock_quantity
                                   - NeededVariation(orders[o].items, v, 1))
                       ELSE variations[v].stock_quantity]_vars

(* an assign call has just sent to the admin an order that has eligible
   sellers, all of them farther from the customer than the hub, and has
   taken the units from the global stock *)
C6_Witness ==
    \E o \in DOMAIN orders :
        /\ ret = Ret("assign", o, TRUE, "Assigned to Admin Direct Fulfillment")
        /\ AtAdmin(orders[o])
        /\ Eligible(sellers, inventory, orders[o]) # {}
        /\ HubCloserThanAll(orders[o], inventory)
        /\ \E s \in Eligible(sellers, inventory, orders[o]) :
              SellerDist(sellers, orders[o], s) < Inf
        /\ products[1].stock_quantity < 2

(* the list the call ranks: the order's coordinates after geocoding, the
   inventory as the call finds it *)
FreshCandidates(o) ==
    find_nearest_eligible_sellers(sellers, [DB EXCEPT !.orders = orders'], o, ASSIGN_LIMIT)

(* C7: whenever the attempt index is at or past the end of the freshly
   ranked candidate list, assign routes the order to admin fallback and
   reserves nothing at any seller. *)
C7_ExhaustedFallsBack ==
    [][\A o \in DOMAIN orders :
          (RoutingStep(o) /\ orders[o].assignment_attempts >= Len(FreshCandidates(o)))
          => /\ orders'[o].assigned_seller_id = Null
             /\ orders'[o].fulfillment_source = "admin"
             /\ ReservedUnchanged]_vars

(* an assign call has just sent an order to the admin although its list
   still names a seller that is not farther than the hub *)
C7_Witness ==
    \E o \in DOMAIN orders :
        LET cands == find_nearest_eligible_sellers(sellers, DB, o, ASSIGN_LIMIT)
        IN  /\ ret = Ret("assign", o, TRUE, "Assigned to Admin Direct Fulfillment")
            /\ AtAdmin(orders[o])
            /\ Len(cands) >= 1
            /\ orders[o].assignment_attempts >= Len(cands)
            /\ ~ (HubDist(orders[o]) < cands[1].dist)

Fresh(ord) == ord.assignment_status = NoStatus /\ ord.assignment_attempts = 0

(* the eligible seller that is nearest, lowest id first among equals *)
Nearest(sel, inv, ord) ==
    CHOOSE s \in Eligible(sel, inv, ord) :
        \A t \in Eligible(sel, inv, ord) :
            \/ SellerDist(sel, ord, s) < SellerDist(sel, ord, t)
            \/ SellerDist(sel, ord, s) = SellerDist(sel, ord, t) /\ s <= t

FreshOrderCase(o) ==
    /\ AssignStep(o)
    /\ Fresh(orders[o])
    /\ Eligible(sellers, inventory, orders'[o]) # {}
    /\ ~ (HubDist(orders'[o])
          < SellerDist(sellers, orders'[o], Nearest(sellers, inventory, orders'[o])))

ReservedAt(o, s) ==
    \A k \in DOMAIN inventory :
        /\ inventory'[k].quantity = inventory[k].quantity
        /\ inventory'[k].reserved_quantity =
             inventory[k].reserved_quantity
             + (IF k[1] = s THEN Needed(orders[o].items, k[2], k[3], 1) ELSE 0)

(* C8 as stated: a fresh order with an eligible seller and the hub not
   strictly closer than the nearest one is assigned to that seller with
   status assigned, expiry now + 24h, that seller's reserved counters
   raised by the ordered quantities and no other inventory record changed. *)
C8_FreshOrderBecomesAssigned ==
    [][\A o \in DOMAIN orders :
          FreshOrderCase(o)
          => /\ orders'[o].assigned_seller_id = Nearest(sellers, inventory, orders'[o])
             /\ orders'[o].assignment_status = "assigned"
             /\ orders'[o].assignment_expiry = now + EXPIRY_HOURS
             /\ ReservedAt(o, Nearest(sellers, inventory, orders'[o]))]_vars

(* C8 amended: ... is assigned to that seller with status assigned, or
   accepted when that seller accepts automatically; expiry now + 24h, that
   seller's reserved counters raised by the ordered quantities and no
   other inventory record changed. *)
C8_FreshOrderGoesToNearest ==
    [][\A o \in DOMAIN orders :
          FreshOrderCase(o)
          => /\ orders'[o].assigned_seller_id = Nearest(sellers, inventory, orders'[o])
             /\ orders'[o].assignment_status =
                  (IF sellers[Nearest(sellers, inventory, orders'[o])].auto_accept_orders
                   THEN "accepted" ELSE "assigned")
             /\ orders'[o].assignment_expiry = now + EXPIRY_HOURS
             /\ ReservedAt(o, Nearest(sellers, inventory, orders'[o]))]_vars

(* an assign call has just given an order its first seller, and the order
   waits for that seller's answer *)
C8_Witness ==
    \E o \in DOMAIN orders :
        /\ ret = Ret("assign", o, TRUE, "Assigned to seller")
        /\ orders[o].assignment_attempts = 1
        /\ orders[o].assignment_status = "assigned"
        /\ orders[o].assigned_seller_id # Null
        /\ orders[o].assignment_expiry = now + EXPIRY_HOURS
        /\ Len(orders[o].items) > 1

RejectStep(o) ==
    /\ o \in DOMAIN orders
    /\ ret'.op = "reject" /\ ret'.order = o /\ ret'.success
    /\ now' = now

Released(o) ==
    ReleaseStock(inventory, orders[o].assigned_seller_id, orders[o].items, 1)

(* C9: when the seller S an order is assigned to rejects it and another
   eligible seller exists that the hub is not closer than, then after the
   reject S's reserved counters are down by the ordered quantities, the
   order is assigned to another seller whose counters are up by them, and
   the attempt count is one higher. *)
C9_RejectMovesToOtherSeller ==
    [][\A o \in DOMAIN orders :
          (/\ RejectStep(o)
           /\ orders[o].assignment_status = "assigned"
           /\ \E t \in Eligible(sellers, Released(o), orders'[o]) :
                 /\ t # orders[o].assigned_seller_id
                 /\ ~ (HubDist(orders'[o]) < SellerDist(sellers, orders'[o], t)))
          => /\ orders'[o].assigned_seller_id \notin {Null, orders[o].assigned_seller_id}
             /\ orders'[o].assignment_attempts = orders[o].assignment_attempts + 1
             /\ \A k \in DOMAIN inventory :
                   inventory'[k].reserved_quantity =
                       inventory[k].reserved_quantity
                       - (IF k[1] = orders[o].assigned_seller_id
                          THEN Needed(orders[o].items, k[2], k[3], 1) ELSE 0)
                       + (IF k[1] = orders'[o].assigned_seller_id
                          THEN Needed(orders[o].items, k[2], k[3], 1) ELSE 0)]_vars

Listed(cands) == {cands[i].seller : i \in 1..Len(cands)}

(* C10 as stated: the ranker's list holds exactly the active sellers whose
   available quantity covers every line of the order. *)
C10_ListIsEligibleSet ==
    ret.op = "rank"
    => Listed(ret.candidates) = Eligible(sellers, inventory, orders[ret.order])

(* C10 amended: the ranker's list holds only active sellers whose
   available quantity covers every line of the order, each once; it holds
   all of them when they are at most 20, and otherwise the 20 that come
   first by (distance, seller id). *)
C10_ListIsEligiblePrefix ==
    ret.op = "rank"
    => LET E == Eligible(sellers, inventory, orders[ret.order])
           L == ret.candidates
       IN  /\ Listed(L) \subseteq E
           /\ Cardinality(Listed(L)) = Len(L)
           /\ Len(L) = Min(ASSIGN_LIMIT, Cardinality(E))
           /\ \A s \in Listed(L) : \A t \in E \ Listed(L) :
                 \/ SellerDist(sellers, orders[ret.order], s)
                      < SellerDist(sellers, orders[ret.order], t)
                 \/ /\ SellerDist(sellers, orders[ret.order], s)
                         = SellerDist(sellers, orders[ret.order], t)
                    /\ s < t

(* a ranking over more than 20 eligible sellers, with a seller switched
   off, one short on a line and one without a record left out *)
C10_Witness ==
    /\ ret.op = "rank"
    /\ Cardinality(Eligible(sellers, inventory, orders[ret.order])) > ASSIGN_LIMIT
    /\ Len(ret.candidates) = ASSIGN_LIMIT
    /\ \E s \in DOMAIN sellers : ~ sellers[s].is_active
    /\ \E s \in DOMAIN sellers : <<s, 2, 1>> \notin DOMAIN inventory
    /\ \E k \in DOMAIN inventory :
          inventory[k].quantity - inventory[k].reserved_quantity = 0

(* C11: the ranker's list is sorted ascending by (distance, seller id):
   of two consecutive entries the earlier has the smaller distance, or the
   same distance and the smaller seller id; the distance listed with a
   seller is its distance to the customer, so the list is a function of
   the order, the sellers and the inventory. *)
C11_ListSortedByDistanceThenId ==
    ret.op = "rank"
    => LET L == ret.candidates
       IN  /\ \A i \in 1..Len(L) :
                 L[i].dist = SellerDist(sellers, orders[ret.order], L[i].seller)
           /\ \A i \in 1..(Len(L) - 1) :
                 \/ L[i].dist < L[i + 1].dist
                 \/ L[i].dist = L[i + 1].dist /\ L[i].seller < L[i + 1].seller

(* a ranking that lists a higher seller id before a lower one because it
   is nearer, two sellers at the same distance, and one without
   coordinates at the end *)
C11_Witness ==
    /\ ret.op = "rank"
    /\ LET L == ret.candidates
       IN  /\ \E i \in 1..(Len(L) - 1) :
                 L[i].dist < L[i + 1].dist /\ L[i].seller > L[i + 1].seller
           /\ \E i \in 1..(Len(L) - 1) :
                 L[i].dist = L[i + 1].dist /\ L[i].dist < Inf
           /\ Len(L) > 0 /\ L[Len(L)].dist = Inf /\ L[1].dist < Inf

(* the second half of an interleaved assign_order call for order o *)
FinishStep(o) ==
    /\ o \in DOMAIN orders
    /\ req[o].pc = "ranked" /\ req'[o].pc = "idle"

(* C12: reserving an order's lines at a seller is all-or-nothing: an
   assign call that changes a seller inventory record has found, at that
   moment, available >= required on every line at the chosen seller, and
   has added every line's quantity to that seller's reserved counters and
   changed nothing else. *)
C12_ReserveAllOrNothing ==
    [][\A o \in DOMAIN orders :
          (FinishStep(o) /\ inventory' # inventory)
          => LET s == orders'[o].assigned_seller_id
             IN  /\ s # Null
                 /\ \A i \in 1..Len(orders[o].items) :
                       /\ InvKey(s, orders[o].items[i]) \in DOMAIN inventory
                       /\ inventory[InvKey(s, orders[o].items[i])].quantity
                          - inventory[InvKey(s, orders[o].items[i])].reserved_quantity
                            >= orders[o].items[i].quantity
                 /\ ReservedAt(o, s)]_vars

(* C13: when the stock of the selected candidate has gone between ranking
   and reservation, the call moves on: it ends with the order at a seller
   that covers every line at that moment, or at admin fallback, never at a
   seller that is short. *)
C13_ShortCandidateIsSkipped ==
    [][\A o \in DOMAIN orders :
          (FinishStep(o) /\ ret'.success)
          => \/ AtAdmin(orders'[o])
             \/ orders'[o].assigned_seller_id \in Eligible(sellers, inventory, orders[o])]_vars

(* C14: once an order is accepted, no assign, accept or reject changes
   its status or its seller again, and no request for that order lowers a
   reserved counter of its seller. *)
C14_AcceptedIsFinal ==
    [][\A o \in DOMAIN orders :
          orders[o].assignment_status = "accepted"
          => /\ orders'[o].assignment_status = "accepted"
             /\ orders'[o].assigned_seller_id = orders[o].assigned_seller_id
             /\ ret'.order = o
                => \A k \in DOMAIN inventory :
                      k[1] = orders[o].assigned_seller_id
                      => inventory'[k].reserved_quantity >= inventory[k].reserved_quantity]_vars

(* the order is still waiting for its seller after the window has closed *)
Expired(o) ==
    /\ orders[o].assignment_status = "assigned"
    /\ orders[o].assigned_seller_id # Null
    /\ orders[o].assignment_expiry # Null
    /\ now > orders[o].assignment_expiry

(* C15: an order that is still in status assigned after its
   assignmentExpiry has passed is eventually taken out of that state (its
   reservation released and routing run again); none stays assigned and
   expired forever. *)
C15_ExpiredIsEventuallySwept ==
    \A o \in {1, 2} : Expired(o) ~> ~ Expired(o)

CancelStep(o) ==
    /\ o \in DOMAIN orders
    /\ ret' = Ret("update_status", o, TRUE, "cancelled")

(* C16: cancelling an order releases the reservation held for it at its
   seller, whatever its assignment status: the seller's reserved counters
   go down by the ordered quantities (not below 0); cancelling an order
   that is already cancelled changes no inventory record. *)
C16_CancelReleasesReservation ==
    [][\A o \in DOMAIN orders :
          CancelStep(o)
          => IF orders[o].status = "cancelled"
             THEN inventory' = inventory
             ELSE \A k \in DOMAIN inventory :
                     /\ inventory'[k].quantity = inventory[k].quantity
                     /\ inventory'[k].reserved_quantity =
                          IF k[1] = orders[o].assigned_seller_id
                          THEN Max(0, inventory[k].reserved_quantity
                                      - Needed(orders[o].items, k[2], k[3], 1))
                          ELSE inventory[k].reserved_quantity]_vars

(* C17: the release made by a reject never leaves a reserved counter
   below 0 and never fails, whatever the counters were (0 and values below
   the released quantity included) and also when a record is missing: each
   counter of the rejecting seller ends at its value less the ordered
   quantity, or at 0, and no record is created. *)
C17_ReleaseClampsAtZero ==
    [][\A o \in DOMAIN orders :
          (/\ ret'.op = "reject" /\ ret'.order = o
           /\ orders[o].assigned_seller_id \in DOMAIN sellers
           /\ ret' # Ret("reject", o, FALSE, "Order not found or not assigned to you"))
          => /\ ret'.success
             /\ DOMAIN inventory' = DOMAIN inventory
             /\ \A k \in DOMAIN inventory :
                   /\ inventory'[k].reserved_quantity >= 0
                   /\ (k[1] = orders[o].assigned_seller_id
                       /\ orders'[o].assigned_seller_id # orders[o].assigned_seller_id)
                      => inventory'[k].reserved_quantity =
                           Max(0, inventory[k].reserved_quantity
                                  - Needed(orders[o].items, k[2], k[3], 1))]_vars

(* seller 1 has rejected an order with two lines of SKU B of which it has
   no record, its counter of SKU A is at 0, and the order has moved on *)
C17_Witness ==
    /\ ret.op = "reject" /\ ret.success
    /\ orders[1].assigned_seller_id # 1
    /\ <<1, 2, 1>> \notin DOMAIN inventory
    /\ Needed(orders[1].items, 2, 1, 1) = 2
    /\ inventory[<<1, 1, Null>>].reserved_quantity = 0

(* status changes one request may make by the listed transitions:
   unassigned -> assigned (-> accepted); assigned -> accepted;
   assigned -> rejected, followed within the reject by the new routing;
   (unassigned | rejected) -> admin_fallback *)
ListedChange(a, b) ==
    \/ a = b
    \/ a = NoStatus /\ b \in {"assigned", "accepted", "admin_fallback"}
    \/ a = "assigned" /\ b \in {"accepted", "rejected", "admin_fallback"}

(* the request has sent the order down the fallback path *)
TookFallback(o) ==
    /\ ret'.order = o
    /\ ret'.op \in {"assign", "reject"}
    /\ ret'.msg = "Assigned to Admin Direct Fulfillment"

(* C18: every change of an order's assignment status made by assign,
   accept or reject follows the listed transitions, and an order sent down
   the fallback path is left in status admin_fallback. *)
C18_OnlyListedTransitions ==
    [][\A o \in DOMAIN orders :
          /\ ListedChange(orders[o].assignment_status, orders'[o].assignment_status)
          /\ TookFallback(o) => orders'[o].assignment_status = "admin_fallback"]_vars

(* the request has placed order o at a seller *)
PlacedAtSeller(o) ==
    /\ o \in DOMAIN orders
    /\ ret'.order = o
    /\ ret'.op \in {"assign", "reject"}
    /\ ret'.success
    /\ ret'.msg = "Assigned to seller"
    /\ now' = now

(* C19: when assign selects a seller whose autoAccept flag is set, the
   order is accepted when assign returns, otherwise assigned; in both
   cases that seller is the assigned seller and holds the reservation; an
   order at a seller without the flag becomes accepted only through an
   accept request for it, which leaves it with the same seller. *)
C19_AutoAcceptAtAssignment ==
    [][\A o \in DOMAIN orders :
          /\ PlacedAtSeller(o)
             => LET s == orders'[o].assigned_seller_id
                    base == IF ret'.op = "reject" THEN Released(o) ELSE inventory
                IN  /\ s \in DOMAIN sellers
                    /\ orders'[o].assignment_status =
                         (IF sellers[s].auto_accept_orders THEN "accepted" ELSE "assigned")
                    /\ \A k \in DOMAIN inventory :
                          inventory'[k].reserved_quantity =
                              base[k].reserved_quantity
                              + (IF k[1] = s THEN Needed(orders[o].items, k[2], k[3], 1) ELSE 0)
          /\ (/\ orders[o].assignment_status # "accepted"
              /\ orders'[o].assignment_status = "accepted"
              /\ orders'[o].assigned_seller_id \in DOMAIN sellers
              /\ ~ sellers[orders'[o].assigned_seller_id].auto_accept_orders)
             => /\ ret' = Ret("accept", o, TRUE, "Order accepted successfully")
                /\ orders[o].assignment_status = "assigned"
                /\ orders'[o].assigned_seller_id = orders[o].assigned_seller_id]_vars

(* an assign call has just placed an order at the seller that accepts
   automatically, and the order is accepted with its units reserved there,
   while the other order was accepted by a seller that does not *)
C19_Witness ==
    \E o, o2 \in DOMAIN orders :
        /\ ret = Ret("assign", o, TRUE, "Assigned to seller")
        /\ orders[o].assigned_seller_id \in DOMAIN sellers
        /\ sellers[orders[o].assigned_seller_id].auto_accept_orders
        /\ orders[o].assignment_status = "accepted"
        /\ inventory[<<orders[o].assigned_seller_id, 1, Null>>].reserved_quantity >= 1
        /\ o2 # o
        /\ orders[o2].assigned_seller_id \in DOMAIN sellers
        /\ ~ sellers[orders[o2].assigned_seller_id].auto_accept_orders
        /\ orders[o2].assignment_status = "accepted"

(* the seller inventory as the fallback path finds it: after the release
   when the fallback is reached from a reject *)
FallbackBase(o) == IF ret'.op = "reject" THEN Released(o) ELSE inventory

FallbackStep(o) ==
    /\ o \in DOMAIN orders
    /\ TookFallback(o)
    /\ ret'.success
    /\ now' = now

(* the row after n units have been taken from it *)
Deducted(row, n) ==
    IF n = 0 THEN row
    ELSE IF row.stock_quantity - n <= 0
    THEN [row EXCEPT !.stock_quantity = 0, !.stock_status = "out_of_stock"]
    ELSE [row EXCEPT !.stock_quantity = row.stock_quantity - n]

(* C20 as stated: the fallback path takes the quantity of each ordered
   line from the global stock, not below 0, marks the item out of stock at
   zero, and changes no seller inventory record. *)
C20_FallbackDeductsEveryLine ==
    [][\A o \in DOMAIN orders :
          FallbackStep(o)
          => /\ inventory' = FallbackBase(o)
             /\ \A p \in DOMAIN products :
                   products'[p] = Deducted(products[p], NeededProduct(orders[o].items, p, 1))
             /\ \A v \in DOMAIN variations :
                   variations'[v] =
                       Deducted(variations[v], NeededVariation(orders[o].items, v, 1))]_vars

(* C20 amended: the fallback path takes the quantity of each ordered line
   from the global stock of its product, and of its variation, where that
   stock is stock-managed, not below 0, and marks such an item out of
   stock at zero; stock that is not stock-managed is left as it is; no
   seller inventory record is changed. *)
C20_FallbackDeductsManagedStock ==
    [][\A o \in DOMAIN orders :
          FallbackStep(o)
          => /\ inventory' = FallbackBase(o)
             /\ \A p \in DOMAIN products :
                   products'[p] =
                       IF products[p].manage_stock
                       THEN Deducted(products[p], NeededProduct(orders[o].items, p, 1))
                       ELSE products[p]
             /\ \A v \in DOMAIN variations :
                   variations'[v] =
                       IF variations[v].manage_stock
                       THEN Deducted(variations[v], NeededVariation(orders[o].items, v, 1))
                       ELSE variations[v]]_vars

(* a fallback has just emptied the managed stock of product 1 and of
   variation 1 and flagged both, with the unmanaged product 2 of the same
   order untouched *)
C20_Witness ==
    \E o \in DOMAIN orders :
        /\ ret.order = o /\ ret.msg = "Assigned to Admin Direct Fulfillment"
        /\ AtAdmin(orders[o])
        /\ NeededProduct(orders[o].items, 2, 1) > 0
        /\ products[1].stock_quantity = 0 /\ products[1].stock_status = "out_of_stock"
        /\ variations[1].stock_quantity = 0 /\ variations[1].stock_status = "out_of_stock"
        /\ products[2].stock_quantity = 1 /\ products[2].stock_status = "in_stock"

(* lines of the order whose global stock (product or variation,
   stock-managed) is at zero once the fallback has deducted *)
LinesAtZero(o) ==
    {i \in 1..Len(orders[o].items) :
        LET it == orders[o].items[i]
        IN  \/ /\ it.product_id \in DOMAIN products
               /\ products[it.product_id].manage_stock
               /\ products'[it.product_id].stock_quantity = 0
            \/ /\ it.variation_id \in DOMAIN variations
               /\ variations[it.variation_id].manage_stock
               /\ variations'[it.variation_id].stock_quantity = 0}

(* C21: each admin-fallback deduction sends exactly one out-of-stock
   notification for every order line whose stock reaches zero, and none
   for the lines whose stock stays positive. *)
C21_OneAlertPerLineAtZero ==
    [][\A o \in DOMAIN orders :
          FallbackStep(o)
          => /\ Len(alerts') >= Len(alerts)
             /\ SubSeq(alerts', 1, Len(alerts)) = alerts
             /\ Len(alerts') - Len(alerts) = Cardinality(LinesAtZero(o))]_vars

(* the (success, reason) pairs assign_order returns *)
AssignOutcomes ==
    {<<FALSE, "Order not found">>,
     <<FALSE, "Order already accepted or shipped">>,
     <<TRUE, "Assigned to seller">>,
     <<TRUE, "Assigned to Admin Direct Fulfillment">>}

(* C22: every assign call returns a (success, reason) pair: an unknown
   order id gives (false, not found) and leaves every order, inventory
   and stock row as it was; an order without eligible seller and an order
   nearer to the hub than to its candidate give the pair of the admin
   fallback. *)
C22_AssignReturnsOutcome ==
    [][(ret'.op = "assign" /\ now' = now)
          => /\ <<ret'.success, ret'.msg>> \in AssignOutcomes
             /\ ret'.order \notin DOMAIN orders
                => /\ <<ret'.success, ret'.msg>> = <<FALSE, "Order not found">>
                   /\ UNCHANGED <<sellers, inventory, products, variations, orders>>
             /\ (/\ ret'.order \in DOMAIN orders
                 /\ orders[ret'.order].assignment_status \notin {"accepted", "shipped"}
                 /\ \/ Eligible(sellers, inventory, orders'[ret'.order]) = {}
                    \/ HubCloserThanAll(orders'[ret'.order], inventory))
                => <<ret'.success, ret'.msg>>
                     = <<TRUE, "Assigned to Admin Direct Fulfillment">>]_vars

(* assign has just been called with an order id that does not exist,
   while an order holds a reservation and another is at the admin *)
C22_Witness ==
    /\ ret = Ret("assign", Null, FALSE, "Order not found")
    /\ \E o \in DOMAIN orders : orders[o].assigned_seller_id # Null
    /\ \E o \in DOMAIN orders : AtAdmin(orders[o])

(* C23: when the order has no coordinates and geocoding gives none,
   assign still completes: the candidates are the eligible sellers in
   order of seller id, the one at the attempt index is assigned, and the
   order goes to the admin only when the index is past the end of that
   list, never by the hub-closer rule. *)
C23_NoCoordinatesRanksById ==
    [][\A o \in DOMAIN orders :
          (/\ RoutingStep(o)
           /\ (orders'[o].latitude = Null \/ orders'[o].longitude = Null))
          => LET E == Eligible(sellers, inventory, orders'[o])
                 n == orders[o].assignment_attempts
                 s == orders'[o].assigned_seller_id
             IN  /\ ret'.success
                 /\ IF n >= Cardinality(E)
                    THEN AtAdmin(orders'[o])
                    ELSE /\ s \in E
                         /\ Cardinality({t \in E : t < s}) = n
                         /\ orders'[o].fulfillment_source = "pos"]_vars

(* an assign call has just placed the order without coordinates at
   seller 2, which has no coordinates either, ahead of seller 3, which
   has them *)
C23_Witness ==
    /\ ret = Ret("assign", 2, TRUE, "Assigned to seller")
    /\ orders[2].latitude = Null
    /\ orders[2].assigned_seller_id = 2
    /\ orders[2].assignment_attempts = 1
    /\ sellers[2].latitude = Null /\ sellers[3].latitude # Null
    /\ has_stock(ReleaseStock(inventory, 2, orders[2].items, 1), 3, orders[2].items)

(* coordinates of the model: missing, or a whole degree near the hub *)
SomeCoords == {Null, 0, 22, 23, 24, 25, 113}

(* C24: the distance is +infinity exactly when one of the four
   coordinates is missing; so a seller without coordinates never stands in
   the list ahead of a seller at a finite distance, and an order sent to
   the admin by the hub-closer rule has coordinates and so has the seller
   it was compared with. *)
C24_MissingCoordinatesAreInfinite ==
    [][\A o \in DOMAIN orders :
          RoutingStep(o)
          => LET L == FreshCandidates(o)
                 n == orders[o].assignment_attempts
             IN  /\ \A a, b, c, d \in SomeCoords :
                       (calculate_distance(a, b, c, d) = Inf)
                           <=> (a = Null \/ b = Null \/ c = Null \/ d = Null)
                 /\ \A i, j \in 1..Len(L) :
                       (i < j /\ L[j].dist < Inf) => L[i].dist < Inf
                 /\ (n < Len(L) /\ AtAdmin(orders'[o]))
                    => /\ orders'[o].latitude # Null /\ orders'[o].longitude # Null
                       /\ sellers[L[n + 1].seller].latitude # Null
                       /\ sellers[L[n + 1].seller].longitude # Null]_vars

(* C25: for points A and B with no missing component the distance from
   A to B is the distance from B to A, and the distance from A to A is 0:
   the distance the ranker lists from the customer to the seller is the
   one from the seller to the customer, and it is 0 when both stand at
   the same point. *)
C25_DistanceSymmetricAndZeroOnSelf ==
    (ret.op = "rank" /\ Len(ret.candidates) = 1)
    => LET c == ret.candidates[1]
           A == orders[ret.order]
           B == sellers[c.seller]
       IN  /\ c.dist = calculate_distance(B.latitude, B.longitude, A.latitude, A.longitude)
           /\ calculate_distance(A.latitude, A.longitude, A.latitude, A.longitude) = 0
           /\ (A.latitude = B.latitude /\ A.longitude = B.longitude) => c.dist = 0

(* a distance has been computed between two points that differ in
   latitude and in longitude, the customer north-east of the seller *)
C25_Witness ==
    /\ ret.op = "rank" /\ Len(ret.candidates) = 1
    /\ orders[1].latitude > sellers[1].latitude
    /\ orders[1].longitude > sellers[1].longitude
    /\ ret.candidates[1].dist > 0 /\ ret.candidates[1].dist < Inf

(* C26: an order's attempt count is never negative and never goes down;
   a request raises it by one exactly when it places the order at a
   seller, and by nothing otherwise, so never by more than one. *)
C26_AttemptsCountPlacements ==
    [][\A o \in DOMAIN orders :
          /\ orders[o].assignment_attempts >= 0
          /\ orders'[o].assignment_attempts >= orders[o].assignment_attempts
          /\ orders'[o].assignment_attempts =
                orders[o].assignment_attempts + (IF PlacedAtSeller(o) THEN 1 ELSE 0)]_vars

(* an order has been placed at a seller for the second time, by the
   reassignment of a reject, while the other order went to the admin
   without any attempt counted *)
C26_Witness ==
    \E o, o2 \in DOMAIN orders :
        /\ ret = Ret("reject", o, TRUE, "Assigned to seller")
        /\ orders[o].assignment_attempts = 2
        /\ orders[o].assigned_seller_id # Null
        /\ AtAdmin(orders[o2])
        /\ orders[o2].assignment_attempts = 0

(* C27: after seller S has rejected an order, no assign of that order
   gives it to S again; in particular the assign that S's own reject
   triggers does not. *)
C27_NotBackToRejectingSeller ==
    [][\A o \in DOMAIN orders :
          RejectStep(o) => orders'[o].assigned_seller_id # orders[o].assigned_seller_id]_vars

(* the best-ranked seller of a set: nearest, lowest id among equals *)
BestOf(S, ord) ==
    CHOOSE s \in S :
        \A t \in S :
            \/ SellerDist(sellers, ord, s) < SellerDist(sellers, ord, t)
            \/ SellerDist(sellers, ord, s) = SellerDist(sellers, ord, t) /\ s <= t

(* eligible sellers, once the rejecting seller's units are released, that
   the order has not been assigned to before: with one placement counted,
   every seller but the rejecting one *)
NotYetTried(o) ==
    Eligible(sellers, Released(o), orders'[o]) \ {orders[o].assigned_seller_id}

(* C28: a reassignment picks the best-ranked (nearest, then lowest id)
   currently eligible seller the order has not been assigned to before;
   that seller is not passed over for a farther one or for the admin.
   Stated for the first reassignment, where the sellers tried before are
   the rejecting seller alone. *)
C28_ReassignPicksBestUntried ==
    [][\A o \in DOMAIN orders :
          (/\ RejectStep(o)
           /\ orders[o].assignment_attempts = 1
           /\ NotYetTried(o) # {}
           /\ ~ (HubDist(orders'[o])
                 < SellerDist(sellers, orders'[o], BestOf(NotYetTried(o), orders'[o]))))
          => orders'[o].assigned_seller_id = BestOf(NotYetTried(o), orders'[o])]_vars

(* C29: with a candidate at the attempt index, assign sends the order to
   the admin if and only if the customer's coordinates are known and the
   customer is strictly nearer to the hub than to that candidate;
   otherwise, also when the two distances are equal, the order is placed
   at that candidate. *)
C29_HubOnlyWhenStrictlyCloser ==
    [][\A o \in DOMAIN orders :
          (RoutingStep(o) /\ orders[o].assignment_attempts < Len(FreshCandidates(o)))
          => LET c == FreshCandidates(o)[orders[o].assignment_attempts + 1]
                 known == orders'[o].latitude # Null /\ orders'[o].longitude # Null
             IN  IF known /\ HubDist(orders'[o]) < c.dist
                 THEN /\ ret'.msg = "Assigned to Admin Direct Fulfillment"
                      /\ orders'[o].fulfillment_source = "admin"
                      /\ orders'[o].assigned_seller_id = Null
                 ELSE /\ ret'.msg = "Assigned to seller"
                      /\ orders'[o].fulfillment_source = "pos"
                      /\ orders'[o].assigned_seller_id = c.seller]_vars

(* an assign call has just placed order 1 at seller 3, which is exactly
   as far from the customer as the hub; the nearer seller 1 holds order 2
   and has no stock left for order 1 *)
C29_Witness ==
    /\ ret = Ret("assign", 1, TRUE, "Assigned to seller")
    /\ orders[1].assigned_seller_id = 3
    /\ orders[1].assignment_attempts = 1
    /\ HubDist(orders[1]) = SellerDist(sellers, orders[1], 3)
    /\ HubDist(orders[1]) < Inf
    /\ orders[2].assigned_seller_id = 1

RoutingFields(ord) ==
    <<ord.assignment_status, ord.assigned_seller_id, ord.assignment_attempts,
      ord.assignment_expiry, ord.fulfillment_source>>

(* C30: ranking the candidates of an order changes no inventory record, no
   seller record, and neither the assignment status, the assigned seller,
   the attempt count nor the expiry of any order. *)
C30_RankingKeepsRoutingState ==
    [][ret'.op = "rank"
       => /\ inventory' = inventory
          /\ sellers' = sellers
          /\ DOMAIN orders' = DOMAIN orders
          /\ \A o \in DOMAIN orders :
                RoutingFields(orders'[o]) = RoutingFields(orders[o])]_vars

(* a ranking has geocoded the address, saved the coordinates to the order
   and returned candidates *)
C30_Witness ==
    /\ ret.op = "rank"
    /\ orders[ret.order].latitude = 22
    /\ orders[ret.order].longitude = 113
    /\ Len(ret.candidates) > 0
    /\ \E k \in DOMAIN inventory : inventory[k].reserved_quantity > 0

(* units of the SKU of record k asked for by the orders of O that are
   assigned to or accepted by the seller of record k *)
RECURSIVE HeldFor(_, _)
HeldFor(k, O) ==
    IF O = {} THEN 0
    ELSE LET o == CHOOSE x \in O : TRUE
         IN  (IF /\ orders[o].assigned_seller_id = k[1]
                 /\ orders[o].assignment_status \in {"assigned", "accepted"}
              THEN Needed(orders[o].items, k[2], k[3], 1) ELSE 0)
             + HeldFor(k, O \ {o})

(* C31: in every reachable state, the reserved counter of every seller
   inventory record equals the sum of the quantities of that SKU over the
   orders currently assigned to or accepted by that seller. *)
C31_ReservedMatchesHeldOrders ==
    \A k \in DOMAIN inventory :
        inventory[k].reserved_quantity = HeldFor(k, DOMAIN orders)

(* C32: when accept and reject of the assigned seller run side by side,
   the order never ends up accepted with no seller or with its
   reservation released: an accepted order has a seller, and that seller's
   reserved counters cover the order's quantities. *)
C32_AcceptedKeepsSellerAndStock ==
    \A o \in DOMAIN orders :
        orders[o].assignment_status = "accepted"
        => /\ orders[o].assigned_seller_id # Null
           /\ \A k \in DOMAIN inventory :
                 k[1] = orders[o].assigned_seller_id
                 => inventory[k].reserved_quantity
                      >= Needed(orders[o].items, k[2], k[3], 1)

(* request r releases the reservation of the assignment it checked *)
ReleaseStep(r) ==
    /\ req[r].pc = "reject_checked"
    /\ req'[r].pc = "reject_released"

(* the assignment request r checked has been given up since *)
AlreadyReleased(r) ==
    \/ orders[req[r].o].assigned_seller_id # req[r].u
    \/ orders[req[r].o].assignment_attempts # req[r].ord.assignment_attempts

(* C33: of two rejects of the same assignment only one lowers the
   seller's reserved counters: the release of a reject whose assignment
   has already been given up changes no reserved counter, and no release
   takes a counter below the quantities of the other orders the seller
   holds. *)
C33_DuplicateRejectReleasesOnce ==
    [][\A r \in Slots :
          ReleaseStep(r)
          => /\ AlreadyReleased(r)
                => \A k \in DOMAIN inventory :
                      inventory'[k].reserved_quantity = inventory[k].reserved_quantity
             /\ \A k \in DOMAIN inventory :
                   (k[1] = req[r].u
                    /\ inventory[k].reserved_quantity
                         >= HeldFor(k, DOMAIN orders \ {req[r].o}))
                   => inventory'[k].reserved_quantity
                         >= HeldFor(k, DOMAIN orders \ {req[r].o})]_vars

(* the admin has forced order o over to admin fulfilment *)
OverrideStep(o) ==
    /\ o \in DOMAIN orders
    /\ ret' = Ret("override", o, TRUE, "Forced assignment to Admin")

(* C34: forcing an order that is assigned to or accepted by seller S over
   to admin fulfilment lowers S's reserved counters by the order's
   quantities and changes no other seller inventory record; the order is
   at the admin afterwards. *)
C34_OverrideReleasesSeller ==
    [][\A o \in DOMAIN orders :
          (/\ OverrideStep(o)
           /\ orders[o].assigned_seller_id # Null
           /\ orders[o].assignment_status \in {"assigned", "accepted"})
          => /\ AtAdmin(orders'[o])
             /\ \A k \in DOMAIN inventory :
                   /\ inventory'[k].quantity = inventory[k].quantity
                   /\ inventory'[k].reserved_quantity =
                        inventory[k].reserved_quantity
                        - (IF k[1] = orders[o].assigned_seller_id
                           THEN Needed(orders[o].items, k[2], k[3], 1) ELSE 0)]_vars

ActiveSellers == {s \in DOMAIN sellers : sellers[s].is_active}

(* C35: rerouting ends.  The number of seller assignments of an order
   never exceeds the number of active sellers nor the candidate limit; a
   reject of an order that has had that many assignments routes it to the
   admin; and an order waiting for a seller that answers is eventually
   accepted or at the admin. *)
C35_ReroutingEnds ==
    /\ [](\A o \in DOMAIN orders :
            /\ orders[o].assignment_attempts <= Cardinality(ActiveSellers)
            /\ orders[o].assignment_attempts <= ASSIGN_LIMIT)
    /\ [][\A o \in DOMAIN orders :
            (RejectStep(o)
             /\ orders[o].assignment_attempts
                  >= Min(Cardinality(ActiveSellers), ASSIGN_LIMIT))
            => AtAdmin(orders'[o])]_vars
    /\ \A o \in 1..2 :
          (orders[o].assignment_status = "assigned" /\ orders[o].assigned_seller_id # Null)
          ~> (orders[o].assignment_status = "accepted" \/ AtAdmin(orders[o]))

(* every active seller has had the order and rejected it, and the last
   reject has routed it to the admin *)
C35_Witness ==
    \E o \in DOMAIN orders :
        /\ ret = Ret("reject", o, TRUE, "Assigned to Admin Direct Fulfillment")
        /\ orders[o].assignment_attempts = Cardinality(ActiveSellers)
        /\ AtAdmin(orders[o])

(* C36: an accept or a reject sent by a seller other than the one the
   order is assigned to is answered with an error and changes neither the
   order (status, assigned seller, attempt count) nor any inventory
   record. *)
C36_OtherSellerChangesNothing ==
    [][\A u \in DOMAIN sellers, o \in DOMAIN orders :
          (/\ u # orders[o].assigned_seller_id
           /\ ret'.order = o
           /\ \/ ret'.op = "accept" /\ AcceptOrder(u, o)
              \/ ret'.op = "reject" /\ RejectOrder(u, o))
          => /\ ret'.success = FALSE
             /\ ret'.order = o
             /\ UNCHANGED <<orders, inventory>>]_vars

(* a request for an order that waits for one seller has just been refused
   to another seller *)
C36_Witness ==
    \E o \in DOMAIN orders :
        /\ ret.op \in {"accept", "reject"}
        /\ ret.order = o
        /\ ret.success = FALSE
        /\ ret.msg = "Order not found or not assigned to you"
        /\ orders[o].assigned_seller_id # Null
        /\ orders[o].assignment_status = "assigned"

(* C37: an accept by the assigned seller succeeds only when the status
   is assigned, and then changes the status to accepted and nothing else
   (assigned seller, attempt count, expiry and all reserved counters stay);
   in any other status it is answered with an error and changes nothing. *)
C37_AcceptChangesOnlyStatus ==
    [][\A u \in DOMAIN sellers, o \in DOMAIN orders :
          (/\ u = orders[o].assigned_seller_id
           /\ ret'.op = "accept" /\ ret'.order = o
           /\ AcceptOrder(u, o))
          => IF orders[o].assignment_status = "assigned"
             THEN /\ ret'.success
                  /\ orders' = [orders EXCEPT ![o].assignment_status = "accepted"]
                  /\ inventory' = inventory
             ELSE /\ ret'.success = FALSE
                  /\ UNCHANGED <<orders, inventory>>]_vars

(* the assigned seller has just accepted a waiting order whose stock it
   holds, while another order it accepted earlier stays accepted *)
C37_Witness ==
    \E o \in DOMAIN orders :
        /\ ret = Ret("accept", o, TRUE, "Order accepted successfully")
        /\ orders[o].assignment_status = "accepted"
        /\ orders[o].assigned_seller_id # Null
        /\ ~ sellers[orders[o].assigned_seller_id].auto_accept_orders
        /\ \A k \in DOMAIN inventory :
              k[1] = orders[o].assigned_seller_id
              => inventory[k].reserved_quantity >= Needed(orders[o].items, k[2], k[3], 1)

(* C38: when the seller step of assign fails with an error, assign
   returns success = false and nothing it did stays: every inventory
   record, the global stock, and the order's assignment status, assigned
   seller, attempt count and expiry are as before the call. *)
C38_FailedAssignRollsBack ==
    [][\A o \in DOMAIN orders :
          (AssignStep(o) /\ ret'.msg = "Assignment failed")
          => /\ ret'.success = FALSE
             /\ UNCHANGED <<inventory, products, variations>>
             /\ \A p \in DOMAIN orders :
                   RoutingFields(orders'[p]) = RoutingFields(orders[p])]_vars

(* an assign call for an order that already waits at a seller has failed
   in its seller step: the order is still at that seller with one attempt,
   and only that seller holds stock *)
C38_Witness ==
    \E o \in DOMAIN orders :
        /\ ret = Ret("assign", o, FALSE, "Assignment failed")
        /\ orders[o].assignment_status = "assigned"
        /\ orders[o].assigned_seller_id # Null
        /\ orders[o].assignment_attempts = 1
        /\ \A k \in DOMAIN inventory :
              inventory[k].reserved_quantity =
                  (IF k[1] = orders[o].assigned_seller_id
                   THEN Needed(orders[o].items, k[2], k[3], 1) ELSE 0)

====
